---- MODULE Spec2Model ----
(***************************************************************************)
(* Model of the line-record parser of the Pylontech battery exporter       *)
(* (src/src/parser/parser.go): ParseBAT and ParsePWR, the decoders they    *)
(* use, and the Go library functions they call.                            *)
(*                                                                         *)
(* A Go string is modelled as a sequence of characters; a character is a   *)
(* one-character TLA+ string (VT stands for the vertical tab, which TLA+   *)
(* cannot write as an escape).                                             *)
(***************************************************************************)
EXTENDS Integers, Sequences, FiniteSets, TLC

(***************************************************************************)
(* Bounds of the model.                                                    *)
(***************************************************************************)
\* the longest line sequence handed to one parse call
MaxLines == 2

(***************************************************************************)
(* Characters.                                                             *)
(***************************************************************************)
VT == "<VT>"

Digits == {"0", "1", "2", "3", "4", "5", "6", "7", "8", "9"}

\* unicode.IsSpace on the ASCII range: '\t', '\n', '\v', '\f', '\r', ' '
IsSpace(c) ==
    c = " " \/ c = "\t" \/ c = "\n" \/ c = VT \/ c = "\f" \/ c = "\r"

\* the regexp class \s of Go's RE2 syntax: [\t\n\f\r ] (no vertical tab)
IsReSpace(c) == c = " " \/ c = "\t" \/ c = "\n" \/ c = "\f" \/ c = "\r"

IsDigit(c) == c \in Digits

DigitVal(c) ==
    CASE c = "0" -> 0 [] c = "1" -> 1 [] c = "2" -> 2 [] c = "3" -> 3
      [] c = "4" -> 4 [] c = "5" -> 5 [] c = "6" -> 6 [] c = "7" -> 7
      [] c = "8" -> 8 [] c = "9" -> 9

(***************************************************************************)
(* The Go library functions the parser calls.                              *)
(***************************************************************************)
\* the least index >= i of s whose character is no white space (SkipSpace),
\* is white space (SkipNonSpace), is not of the class \s (SkipReSpace), is
\* no digit (SkipDigits); Len(s) + 1 when there is none
RECURSIVE SkipSpace(_, _)
SkipSpace(s, i) ==
    IF i <= Len(s) /\ IsSpace(s[i]) THEN SkipSpace(s, i + 1) ELSE i

RECURSIVE SkipNonSpace(_, _)
SkipNonSpace(s, i) ==
    IF i <= Len(s) /\ ~IsSpace(s[i]) THEN SkipNonSpace(s, i + 1) ELSE i

RECURSIVE SkipReSpace(_, _)
SkipReSpace(s, i) ==
    IF i <= Len(s) /\ IsReSpace(s[i]) THEN SkipReSpace(s, i + 1) ELSE i

RECURSIVE SkipDigits(_, _)
SkipDigits(s, i) ==
    IF i <= Len(s) /\ IsDigit(s[i]) THEN SkipDigits(s, i + 1) ELSE i

\* greatest index <= i of s whose character is not white space, or 0
RECURSIVE LastNonSpace(_, _)
LastNonSpace(s, i) ==
    IF i = 0 THEN 0
    ELSE IF IsSpace(s[i]) THEN LastNonSpace(s, i - 1) ELSE i

\* strings.TrimSpace
TrimSpace(s) ==
    LET first == SkipSpace(s, 1)
        last == LastNonSpace(s, Len(s))
    IN  IF first > last THEN <<>> ELSE SubSeq(s, first, last)

\* strings.Fields: the maximal runs of non-space characters, in order
RECURSIVE FieldsFrom(_, _)
FieldsFrom(s, i) ==
    LET start == SkipSpace(s, i)
        stop == SkipNonSpace(s, start)
    IN  IF start > Len(s) THEN <<>>
        ELSE <<SubSeq(s, start, stop - 1)>> \o FieldsFrom(s, stop)

Fields(s) == FieldsFrom(s, 1)

\* strings.Contains
Contains(s, sub) ==
    \E i \in 1..(Len(s) - Len(sub) + 1) : SubSeq(s, i, i + Len(sub) - 1) = sub

\* a variant of TrimSuffixPercent: strings.TrimRight(s, "%"), which removes
\* every trailing '%'
RECURSIVE TrimRightPercent(_)
TrimRightPercent(s) ==
    IF Len(s) >= 1 /\ s[Len(s)] = "%"
    THEN TrimRightPercent(SubSeq(s, 1, Len(s) - 1))
    ELSE s

\* strings.TrimSuffix(s, "%"): removes one trailing '%' when there is one
TrimSuffixPercent(s) ==
    IF Len(s) >= 1 /\ s[Len(s)] = "%" THEN SubSeq(s, 1, Len(s) - 1) ELSE s

AllDigits(s) == \A i \in 1..Len(s) : IsDigit(s[i])

\* the digits of s without leading zeros
StripZeros(s) ==
    LET i == CHOOSE k \in 1..(Len(s) + 1) :
                 /\ \A j \in 1..(k - 1) : s[j] = "0"
                 /\ (k <= Len(s) => s[k] # "0")
    IN  SubSeq(s, i, Len(s))

\* a <= b for two digit strings of the same length
RECURSIVE DigitsLeq(_, _)
DigitsLeq(a, b) ==
    IF a = <<>> THEN TRUE
    ELSE IF DigitVal(Head(a)) < DigitVal(Head(b)) THEN TRUE
    ELSE IF DigitVal(Head(a)) > DigitVal(Head(b)) THEN FALSE
    ELSE DigitsLeq(Tail(a), Tail(b))

\* the decimal digits of 1<<63 - 1, the greatest int of a 64-bit build
MaxInt64Digits ==
    <<"9", "2", "2", "3", "3", "7", "2", "0", "3", "6",
      "8", "5", "4", "7", "7", "5", "8", "0", "7">>

\* the decimal digits of 1<<63, the magnitude of the least int
MinInt64Digits ==
    <<"9", "2", "2", "3", "3", "7", "2", "0", "3", "6",
      "8", "5", "4", "7", "7", "5", "8", "0", "8">>

\* strconv's range check: the magnitude written by the digits d fits an int
InIntRange(d, neg) ==
    LET m == StripZeros(d)
        lim == IF neg THEN MinInt64Digits ELSE MaxInt64Digits
    IN  \/ Len(m) < Len(lim)
        \/ Len(m) = Len(lim) /\ DigitsLeq(m, lim)

RECURSIVE DigitsValue(_, _)
DigitsValue(d, acc) ==
    IF d = <<>> THEN acc ELSE DigitsValue(Tail(d), acc * 10 + DigitVal(Head(d)))

\* strconv.Atoi: an optional sign, then one or more decimal digits, within
\* the range of int; anything else is an error
Atoi(s) ==
    LET signed == Len(s) >= 1 /\ s[1] \in {"+", "-"}
        neg == Len(s) >= 1 /\ s[1] = "-"
        d == IF signed THEN Tail(s) ELSE s
    IN  IF d = <<>> \/ ~AllDigits(d) THEN [ok |-> FALSE, val |-> 0]
        ELSE IF ~InIntRange(d, neg) THEN [ok |-> FALSE, val |-> 0]
        ELSE [ok |-> TRUE,
              val |-> IF neg THEN 0 - DigitsValue(d, 0) ELSE DigitsValue(d, 0)]

\* the conversion int8(n) of an int: the low 8 bits, two's complement
Int8(n) == ((n + 128) % 256) - 128

(***************************************************************************)
(* The string literals of parser.go.                                       *)
(***************************************************************************)
StrCharge == <<"C", "h", "a", "r", "g", "e">>
StrDischg == <<"D", "i", "s", "c", "h", "g">>
StrIdle == <<"I", "d", "l", "e">>
StrBalance == <<"B", "a", "l", "a", "n", "c", "e">>
StrNA == <<"N", "/", "A">>
StrAbsent == <<"A", "b", "s", "e", "n", "t">>

(***************************************************************************)
(* The decoders.                                                           *)
(***************************************************************************)
\* parseSOC: "85%" -> 85, narrowed to int8
parseSOC(s) ==
    LET r == Atoi(TrimSuffixPercent(s))
    IN  IF ~r.ok THEN [ok |-> FALSE, val |-> 0]
        ELSE [ok |-> TRUE, val |-> Int8(r.val)]

\* parseCoulomb: the number part s1; the unit s2 is not used
parseCoulomb(s1, s2) ==
    LET r == Atoi(TrimSpace(s1))
    IN  IF ~r.ok THEN [ok |-> FALSE, val |-> 0]
        ELSE [ok |-> TRUE, val |-> r.val]

\* baseStateMap
baseStateMap ==
    [t \in {StrCharge, StrDischg, StrIdle, StrBalance, StrNA} |->
        CASE t = StrCharge -> 0
          [] t = StrDischg -> 1
          [] t = StrIdle -> 2
          [] t = StrBalance -> 3
          [] t = StrNA -> -1]

\* a variant of parseBaseState: the map is indexed without the ok test, so
\* a token that is not a key gives the zero value
parseBaseStateZeroValue(s) ==
    IF s \in DOMAIN baseStateMap THEN baseStateMap[s] ELSE 0

\* parseBaseState: the map's value, -1 for a token that is not a key
parseBaseState(s) ==
    IF s \in DOMAIN baseStateMap THEN baseStateMap[s] ELSE -1

\* a variant of parseInt: the error of Atoi is ignored and its 0 returned
parseIntIgnoringError(s) == [ok |-> TRUE, val |-> Atoi(TrimSpace(s)).val]

\* parseInt
parseInt(s) ==
    LET r == Atoi(TrimSpace(s))
    IN  IF ~r.ok THEN [ok |-> FALSE, val |-> 0]
        ELSE [ok |-> TRUE, val |-> r.val]

(***************************************************************************)
(* The data-line regular expressions.                                      *)
(***************************************************************************)
\* a variant of MatchBatRegex: the looser expression of ParsePWR, which
\* asks for one number only
MatchBatRegexOneNumber(s) ==
    LET i == SkipReSpace(s, 1)
        j == SkipDigits(s, i)
    IN  j > i /\ j <= Len(s) /\ IsReSpace(s[j])

\* ParseBAT's dataRegex ^\s*\d+\s+\d+ matches a prefix of s
MatchBatRegex(s) ==
    LET i == SkipReSpace(s, 1)
        j == SkipDigits(s, i)
        k == SkipReSpace(s, j)
    IN  j > i /\ k > j /\ k <= Len(s) /\ IsDigit(s[k])

\* ParsePWR's dataRegex ^\s*\d+\s+ matches a prefix of s
MatchPwrRegex(s) ==
    LET i == SkipReSpace(s, 1)
        j == SkipDigits(s, i)
    IN  j > i /\ j <= Len(s) /\ IsReSpace(s[j])

(***************************************************************************)
(* One iteration of the parse loops.  The result says what the iteration   *)
(* did: "skip" (continue without a log line), "drop" (continue after a     *)
(* log line), "record" (a status was appended) or "panic" (an index out of *)
(* range), with the log lines it printed.                                  *)
(***************************************************************************)
\* a variant of BatMinFields: one field fewer is asked for
BatMinFieldsOffByOne == 12 - 1

\* the least number of fields of a BAT data line
BatMinFields == 12
\* the least number of fields of a PWR data line
PwrMinFields == 19
\* the greatest index of fields[] the critical fields read
CriticalLastIndex == 3
\* the greatest index of fields[] ParseBAT reads
BatLastIndex == 11
\* the greatest index of fields[] ParsePWR reads
PwrLastIndex == 18

\* fields[i] of the Go code (0-based)
At(fields, i) == fields[i + 1]

\* one log.Printf / log.Println call
Diag(ev, field, lineNo) == [ev |-> ev, field |-> field, line |-> lineNo]

NoStatus == [ID |-> 0]

Outcome(out, rec, logs) == [out |-> out, rec |-> rec, logs |-> logs]

\* a variant of NoiseSkip: the commented-out log call is live
NoiseSkipLogged(lineNo) ==
    Outcome("skip", NoStatus, <<Diag("noise", "", lineNo)>>)

\* a line that is no data line: continue, with no log line (the log call
\* of the code is commented out)
NoiseSkip(lineNo) == Outcome("skip", NoStatus, <<>>)

\* a variant of StructuralDrop: the line is dropped without a log line
StructuralDropSilent(lineNo) == Outcome("drop", NoStatus, <<>>)

\* a data line with too few fields: one log line, then continue
StructuralDrop(lineNo) ==
    Outcome("drop", NoStatus, <<Diag("structural", "", lineNo)>>)

\* a variant of SOCField: the value parseSOC returned is kept on an error
SOCFieldKeepsValue(soc) == soc.val

\* status.SOC after parseSOC returned soc: its value, or -1 on an error
SOCField(soc) == IF soc.ok THEN soc.val ELSE -1

\* status.Coulomb after parseCoulomb returned coulomb (ParseBAT) or
\* parseSOC returned socVal (ParsePWR): its value, or -1 on an error
CoulombField(coulomb) == IF coulomb.ok THEN coulomb.val ELSE -1

\* the four critical fields, decoded in the order of the code; the first
\* failure logs an error and ends the iteration
CriticalFields(fields, lineNo) ==
    LET id == parseInt(At(fields, 0))
        volt == parseInt(At(fields, 1))
        curr == parseInt(At(fields, 2))
        temp == parseInt(At(fields, 3))
    IN  IF ~id.ok
        THEN [ok |-> FALSE, logs |-> <<Diag("critical", "ID", lineNo)>>]
        ELSE IF ~volt.ok
        THEN [ok |-> FALSE, logs |-> <<Diag("critical", "Volt", lineNo)>>]
        ELSE IF ~curr.ok
        THEN [ok |-> FALSE, logs |-> <<Diag("critical", "Curr", lineNo)>>]
        ELSE IF ~temp.ok
        THEN [ok |-> FALSE, logs |-> <<Diag("critical", "Temp", lineNo)>>]
        ELSE [ok |-> TRUE, logs |-> <<>>,
              ID |-> id.val, Volt |-> volt.val,
              Curr |-> curr.val, Temp |-> temp.val]

\* a variant of BatStatus: BAL is read from the last field of the line and
\* the capacity from the field before it, not from positions 11 and 9
BatStatusFromEnd(fields, crit, lineNo) ==
    LET soc == parseSOC(At(fields, 8))
        coulomb == parseCoulomb(At(fields, Len(fields) - 3),
                                At(fields, Len(fields) - 2))
    IN  Outcome("record",
                [ID |-> crit.ID, Volt |-> crit.Volt, Curr |-> crit.Curr,
                 Temp |-> crit.Temp,
                 BaseState |-> parseBaseState(At(fields, 4)),
                 VoltState |-> At(fields, 5),
                 CurrState |-> At(fields, 6),
                 TempState |-> At(fields, 7),
                 SOC |-> SOCField(soc),
                 Coulomb |-> CoulombField(coulomb),
                 BAL |-> At(fields, Len(fields) - 1)],
                (IF soc.ok THEN <<>> ELSE <<Diag("degraded", "SOC", lineNo)>>)
                \o (IF coulomb.ok THEN <<>>
                    ELSE <<Diag("degraded", "Coulomb", lineNo)>>))

\* the BatteryStatus of a line whose critical fields decoded, with the
\* warnings of its SOC and Coulomb fields
BatStatus(fields, crit, lineNo) ==
    LET soc == parseSOC(At(fields, 8))
        coulomb == parseCoulomb(At(fields, 9), At(fields, 10))
    IN  Outcome("record",
                [ID |-> crit.ID, Volt |-> crit.Volt, Curr |-> crit.Curr,
                 Temp |-> crit.Temp,
                 BaseState |-> parseBaseState(At(fields, 4)),
                 VoltState |-> At(fields, 5),
                 CurrState |-> At(fields, 6),
                 TempState |-> At(fields, 7),
                 SOC |-> SOCField(soc),
                 Coulomb |-> CoulombField(coulomb),
                 BAL |-> At(fields, 11)],
                (IF soc.ok THEN <<>> ELSE <<Diag("degraded", "SOC", lineNo)>>)
                \o (IF coulomb.ok THEN <<>>
                    ELSE <<Diag("degraded", "Coulomb", lineNo)>>))

\* a variant of BatIsDataLine: with the "Absent" test of ParsePWR
BatIsDataLineAbsentRule(line) ==
    ~(~MatchBatRegex(line) \/ Contains(line, StrAbsent) \/ line = <<>>)

\* the line test at the head of ParseBAT's loop, on the trimmed line
BatIsDataLine(line) == ~(~MatchBatRegex(line) \/ line = <<>>)

\* the body of ParseBAT's loop for the line raw, the lineNo-th of the input
BatLine(raw, lineNo) ==
    LET line == TrimSpace(raw)
        fields == Fields(line)
    IN  IF ~BatIsDataLine(line) THEN NoiseSkip(lineNo)
        ELSE IF Len(fields) < BatMinFields THEN StructuralDrop(lineNo)
        ELSE IF Len(fields) <= CriticalLastIndex
        THEN Outcome("panic", NoStatus, <<>>)
        ELSE LET crit == CriticalFields(fields, lineNo)
             IN  IF ~crit.ok THEN Outcome("drop", NoStatus, crit.logs)
                 ELSE IF Len(fields) <= BatLastIndex
                 THEN Outcome("panic", NoStatus, <<>>)
                 ELSE BatStatus(fields, crit, lineNo)

\* a variant of PwrStatus: the state and the SOC are read at the positions
\* of a BAT line (4 and 8)
PwrStatusBatPositions(fields, crit, lineNo) ==
    LET socVal == parseSOC(At(fields, 8))
    IN  Outcome("record",
                [ID |-> crit.ID, Volt |-> crit.Volt, Curr |-> crit.Curr,
                 Temp |-> crit.Temp,
                 BaseState |-> parseBaseState(At(fields, 4)),
                 VoltState |-> At(fields, 9),
                 CurrState |-> At(fields, 10),
                 TempState |-> At(fields, 11),
                 Coulomb |-> CoulombField(socVal),
                 BVState |-> At(fields, 15),
                 BTState |-> At(fields, 16),
                 MosTemp |-> At(fields, 17),
                 MTState |-> At(fields, 18)],
                IF socVal.ok THEN <<>> ELSE <<Diag("degraded", "SOC", lineNo)>>)

\* the PowerStatus of a line whose critical fields decoded, with the
\* warning of its SOC/Coulomb field
PwrStatus(fields, crit, lineNo) ==
    LET socVal == parseSOC(At(fields, 12))
    IN  Outcome("record",
                [ID |-> crit.ID, Volt |-> crit.Volt, Curr |-> crit.Curr,
                 Temp |-> crit.Temp,
                 BaseState |-> parseBaseState(At(fields, 8)),
                 VoltState |-> At(fields, 9),
                 CurrState |-> At(fields, 10),
                 TempState |-> At(fields, 11),
                 Coulomb |-> CoulombField(socVal),
                 BVState |-> At(fields, 15),
                 BTState |-> At(fields, 16),
                 MosTemp |-> At(fields, 17),
                 MTState |-> At(fields, 18)],
                IF socVal.ok THEN <<>> ELSE <<Diag("degraded", "SOC", lineNo)>>)

\* a variant of PwrIsDataLine: without the "Absent" test
PwrIsDataLineNoAbsent(line) == ~(~MatchPwrRegex(line) \/ line = <<>>)

\* the line test at the head of ParsePWR's loop, on the trimmed line
PwrIsDataLine(line) ==
    ~(~MatchPwrRegex(line) \/ Contains(line, StrAbsent) \/ line = <<>>)

\* the body of ParsePWR's loop for the line raw, the lineNo-th of the input
PwrLine(raw, lineNo) ==
    LET line == TrimSpace(raw)
        fields == Fields(line)
    IN  IF ~PwrIsDataLine(line) THEN NoiseSkip(lineNo)
        ELSE IF Len(fields) < PwrMinFields THEN StructuralDrop(lineNo)
        ELSE IF Len(fields) <= CriticalLastIndex
        THEN Outcome("panic", NoStatus, <<>>)
        ELSE LET crit == CriticalFields(fields, lineNo)
             IN  IF ~crit.ok THEN Outcome("drop", NoStatus, crit.logs)
                 ELSE IF Len(fields) <= PwrLastIndex
                 THEN Outcome("panic", NoStatus, <<>>)
                 ELSE PwrStatus(fields, crit, lineNo)

\* a variant of AppendStatus: the status is put in front
PrependStatus(results, status) == <<status>> \o results

\* results = append(results, status)
AppendStatus(results, status) == Append(results, status)

(***************************************************************************)
(* The check after the loops: one warning when no record was parsed though *)
(* some line looks like a data line.                                       *)
(***************************************************************************)
BatFoundDataLikeLine(lines) ==
    \E i \in 1..Len(lines) : MatchBatRegex(TrimSpace(lines[i]))

\* a variant of PwrFoundDataLikeLine: without the "Absent" test
PwrFoundDataLikeLineNoAbsent(lines) ==
    \E i \in 1..Len(lines) : MatchPwrRegex(TrimSpace(lines[i]))

PwrFoundDataLikeLine(lines) ==
    \E i \in 1..Len(lines) :
        MatchPwrRegex(TrimSpace(lines[i])) /\ ~Contains(lines[i], StrAbsent)

BatEmptyWarning(lines, results) ==
    IF Len(results) = 0 /\ Len(lines) > 0 /\ BatFoundDataLikeLine(lines)
    THEN <<Diag("batch_empty", "", 0)>>
    ELSE <<>>

PwrEmptyWarning(lines, results) ==
    IF Len(results) = 0 /\ Len(lines) > 0 /\ PwrFoundDataLikeLine(lines)
    THEN <<Diag("batch_empty", "", 0)>>
    ELSE <<>>

(***************************************************************************)
(* The inputs: the lines a parse call is given are drawn from a pool per   *)
(* record kind.  A pool holds one well-formed line of the device's console *)
(* output, the lines that differ from it in one or two tokens, in the      *)
(* number of tokens or in the white space, and lines that are no data      *)
(* rows.                                                                   *)
(***************************************************************************)
RECURSIVE Join(_, _)
Join(toks, sep) ==
    IF toks = <<>> THEN <<>>
    ELSE IF Len(toks) = 1 THEN toks[1]
    ELSE toks[1] \o sep \o Join(Tail(toks), sep)

\* toks with the token at the 0-based position pos replaced by tok
Repl(toks, pos, tok) == [toks EXCEPT ![pos + 1] = tok]

\* the tokens the pools are made of
TokNormal == <<"N", "o", "r", "m", "a", "l">>
TokBal == [i \in 1..16 |-> "0"]
\* twenty nines: a digit string beyond the range of a 64-bit int
TokHuge == [i \in 1..20 |-> "9"]
Tok1 == <<"1">>
Tok2 == <<"2">>
TokDash == <<"-">>
TokX == <<"x">>
TokAbc == <<"a", "b", "c">>
Tok37x == <<"3", "7", "x">>
Tok85Pct == <<"8", "5", "%">>
Tok255Pct == <<"2", "5", "5", "%">>

\* "1 3750 0 301 Charge Normal Normal Normal 85% 3450 mAH 0000000000000000"
BatBaseTokens ==
    <<Tok1, <<"3", "7", "5", "0">>, <<"0">>, <<"3", "0", "1">>,
      StrCharge, TokNormal, TokNormal, TokNormal,
      Tok85Pct, <<"3", "4", "5", "0">>, <<"m", "A", "H">>, TokBal>>

\* the one-token changes of the well-formed BAT line: <<position, token>>
BatChanges ==
    {<<0, TokHuge>>,
     <<1, Tok37x>>, <<1, TokX>>,
     <<2, TokAbc>>,
     <<3, TokX>>,
     <<4, StrAbsent>>,
     <<8, TokAbc>>, <<8, Tok255Pct>>,
     <<9, TokX>>}

BatTokenLists ==
    {BatBaseTokens}
    \cup {Repl(BatBaseTokens, c[1], c[2]) : c \in BatChanges}
    \cup {SubSeq(BatBaseTokens, 1, 11)}

BatLinePool ==
    {Join(t, <<" ">>) : t \in BatTokenLists}
    \cup {<<" ", " ">> \o Join(BatBaseTokens, <<"\t", " ">>) \o <<" ">>,
          Tok1 \o <<VT>> \o Join(Tail(BatBaseTokens), <<" ">>),
          <<>>,
          <<" ", "\t">>,
          <<"B", "a", "t", "t", "e", "r", "y", " ", "V", "o", "l", "t">>}

\* "1 4986 -153 170 150 160 3323 3326 Dischg Normal Normal Normal 85% d t
\*  Normal Normal 180 Normal" (d and t stand for the date and the time)
PwrBaseTokens ==
    <<Tok1, <<"4", "9", "8", "6">>, <<"-", "1", "5", "3">>, <<"1", "7", "0">>,
      <<"1", "5", "0">>, <<"1", "6", "0">>,
      <<"3", "3", "2", "3">>, <<"3", "3", "2", "6">>,
      StrDischg, TokNormal, TokNormal, TokNormal,
      Tok85Pct, <<"d">>, <<"t">>,
      TokNormal, TokNormal, <<"1", "8", "0">>, TokNormal>>

\* the one-token changes of the well-formed PWR line: <<position, token>>
PwrChanges ==
    {<<0, TokHuge>>,
     <<1, TokDash>>,
     <<8, StrIdle>>, <<8, StrAbsent>>,
     <<12, TokAbc>>, <<12, Tok255Pct>>,
     <<18, TokX \o StrAbsent \o TokX>>}

\* the last list is the row of an absent power slot: "2 - - ... Absent - ..."
PwrTokenLists ==
    {PwrBaseTokens}
    \cup {Repl(PwrBaseTokens, c[1], c[2]) : c \in PwrChanges}
    \cup {SubSeq(PwrBaseTokens, 1, 18),
          <<Tok2>> \o [i \in 1..7 |-> TokDash] \o <<StrAbsent>>
              \o [i \in 1..7 |-> TokDash]}

PwrLinePool ==
    {Join(t, <<" ">>) : t \in PwrTokenLists}
    \cup {<<" ", " ">> \o Join(PwrBaseTokens, <<"\t", " ">>) \o <<" ">>,
          <<>>,
          <<" ", "\t">>,
          <<"P", "o", "w", "e", "r", " ", "V", "o", "l", "t">>}

\* the line sequences of at most MaxLines lines over a pool
LineSeqs(pool) == UNION {[1..n -> pool] : n \in 0..MaxLines}

(***************************************************************************)
(* The state.  The first eight variables are one parse call, followed line *)
(* by line; calls holds the parse calls of concurrent callers; the         *)
(* variables after it are the exporter's main loop and its metrics.        *)
(***************************************************************************)
VARIABLES
    kind,       \* "BAT": a call of ParseBAT; "PWR": a call of ParsePWR
    lines,      \* the argument lines
    lineIdx,    \* the number of lines the loop has gone through
    results,    \* the local variable results
    origin,     \* history: origin[k] is the 1-based number of the line
                \* results[k] was appended for
    log,        \* the log lines printed so far
    pc,         \* "loop", "done" (returned) or "panic"
    err,        \* the error returned: "unset" before the return, then "nil"
    calls,      \* calls[p]: the parse call the caller p is in or has left
    mainPc,     \* where main is: "tick" (waiting for the ticker), "bat" (at
                \* the head of the loop of processBATData), "off" (not run)
    cycle,      \* the number of ticks taken
    pwrUnitCount,   \* what processPWRData returned in this cycle
    unitNum,        \* the loop variable of processBATData
    scrapeErrors,   \* the counter vector: error type -> count
    batteryGauges,  \* the battery gauge vectors: <<unit, id>> -> values
    powerGauges,    \* the power gauge vectors but mos_temp: id -> values
    powerMosTemp,   \* the power gauge vector mos_temp: id -> value
    trace,      \* history: what was done for each command of this cycle
    lastBat,    \* history: <<unit, id>> -> the last record ParseBAT
                \* returned with that identity
    lastPwr,    \* history: id -> the last record ParsePWR returned with it
    lastMos,    \* history: id -> the last such record whose MosTemp is a float
    fetchFailures   \* history: command -> the fetches of it that failed

\* the variables of the one parse call
parserVars == <<kind, lines, lineIdx, results, origin, log, pc, err>>

\* the variables of main and of the metrics package
mainVars ==
    <<mainPc, cycle, pwrUnitCount, unitNum, scrapeErrors, batteryGauges,
      powerGauges, powerMosTemp, trace, lastBat, lastPwr, lastMos,
      fetchFailures>>

\* the variables a step of the one parse call leaves alone
beside == <<calls, mainVars>>

vars == <<parserVars, beside>>

\* the callers of the concurrent parse calls
Procs == {"p", "q"}

\* a caller that is in no call
NoCall ==
    [kind |-> "BAT", lines |-> <<>>, lineIdx |-> 0, results |-> <<>>,
     pc |-> "done"]

\* the vectors InitMetrics makes have no child, and no function with an
\* empty domain has one
NoChild == <<>>

\* main before its first tick, at the position at
MainAt(at) ==
    /\ mainPc = at
    /\ cycle = 0
    /\ pwrUnitCount = 0
    /\ unitNum = 0
    /\ scrapeErrors = NoChild
    /\ batteryGauges = NoChild
    /\ powerGauges = NoChild
    /\ powerMosTemp = NoChild
    /\ trace = <<>>
    /\ lastBat = NoChild
    /\ lastPwr = NoChild
    /\ lastMos = NoChild
    /\ fetchFailures = NoChild

\* nothing runs beside the one parse call
BesideIdle == calls = [p \in Procs |-> NoCall] /\ MainAt("off")

Init ==
    /\ kind \in {"BAT", "PWR"}
    /\ lines \in LineSeqs(IF kind = "BAT" THEN BatLinePool ELSE PwrLinePool)
    /\ lineIdx = 0
    /\ results = <<>>
    /\ origin = <<>>
    /\ log = <<>>
    /\ pc = "loop"
    /\ err = "unset"
    /\ BesideIdle

\* the effect of one loop iteration whose outcome is o
Iterate(o) ==
    IF o.out = "panic"
    THEN /\ pc' = "panic"
         /\ UNCHANGED <<kind, lines, lineIdx, results, origin, log, err>>
         /\ UNCHANGED beside
    ELSE /\ lineIdx' = lineIdx + 1
         /\ log' = log \o o.logs
         /\ results' = IF o.out = "record" THEN AppendStatus(results, o.rec)
                       ELSE results
         /\ origin' = IF o.out = "record" THEN Append(origin, lineIdx + 1)
                      ELSE origin
         /\ UNCHANGED <<kind, lines, pc, err>>
         /\ UNCHANGED beside

\* one iteration of ParseBAT's loop over lines
BatIterate ==
    /\ kind = "BAT"
    /\ pc = "loop"
    /\ lineIdx < Len(lines)
    /\ Iterate(BatLine(lines[lineIdx + 1], lineIdx + 1))

\* ParseBAT after its loop: the empty-batch warning and the return
BatReturn ==
    /\ kind = "BAT"
    /\ pc = "loop"
    /\ lineIdx = Len(lines)
    /\ log' = log \o BatEmptyWarning(lines, results)
    /\ pc' = "done"
    /\ err' = "nil"
    /\ UNCHANGED <<kind, lines, lineIdx, results, origin>>
    /\ UNCHANGED beside

\* one iteration of ParsePWR's loop over lines
PwrIterate ==
    /\ kind = "PWR"
    /\ pc = "loop"
    /\ lineIdx < Len(lines)
    /\ Iterate(PwrLine(lines[lineIdx + 1], lineIdx + 1))

\* ParsePWR after its loop: the empty-batch warning and the return
PwrReturn ==
    /\ kind = "PWR"
    /\ pc = "loop"
    /\ lineIdx = Len(lines)
    /\ log' = log \o PwrEmptyWarning(lines, results)
    /\ pc' = "done"
    /\ err' = "nil"
    /\ UNCHANGED <<kind, lines, lineIdx, results, origin>>
    /\ UNCHANGED beside

Next == BatIterate \/ BatReturn \/ PwrIterate \/ PwrReturn

Spec == Init /\ [][Next]_vars

(***************************************************************************)
(* Parse calls on one line: the well-formed line with one token changed,   *)
(* or with tokens added at its end.  The token put at the SOC position     *)
(* runs through every string of at most MaxTokLen characters over          *)
(* PctAlphabet, the token at the state position through the spellings of   *)
(* StateTokens, and every position takes a numeric and a non-numeric       *)
(* token.                                                                  *)
(***************************************************************************)
\* the longest generated token
MaxTokLen == 4

PctAlphabet == {"2", "5", "8", "%"}

\* every string of at most n characters over alpha
StringsOver(alpha, n) == UNION {[1..k -> alpha] : k \in 0..n}

TokMinus1 == <<"-", "1">>
TokPlus85Pct == <<"+", "8", "5", "%">>
TokPctOnly == <<"%">>

\* the tokens put at the SOC position (8 of a BAT line, 12 of a PWR line)
PctTokens ==
    StringsOver(PctAlphabet, MaxTokLen)
    \cup {TokAbc, TokMinus1, TokPlus85Pct, TokHuge, TokHuge \o TokPctOnly}

\* the tokens put at the state position (4 of a BAT line, 8 of a PWR line)
StateTokens ==
    {StrCharge, StrDischg, StrIdle, StrBalance, StrNA, StrAbsent, TokNormal,
     <<"c", "h", "a", "r", "g", "e">>, <<"C", "H", "A", "R", "G", "E">>,
     <<"i", "d", "l", "e">>, <<"I", "D", "L", "E">>,
     <<"D", "i", "s", "c", "h", "a", "r", "g", "e">>,
     <<"B", "a", "l", "a", "n", "c", "e", "d">>,
     <<"n", "/", "a">>, <<"C", "h", "a", "r", "g">>, TokDash, Tok2}

TokMAH == <<"m", "A", "H">>
TokAh == <<"A", "h">>

\* the changes of one token of the base line toks, as <<position, token>>:
\* the SOC and the state position take the tokens above, every position
\* takes "2" and "x"
TokenChanges(toks, socPos, statePos) ==
    {<<socPos, t>> : t \in PctTokens}
    \cup {<<statePos, t>> : t \in StateTokens}
    \cup {<<p, t>> : p \in 0..(Len(toks) - 1), t \in {Tok2, TokX}}

\* the lines made of the base line toks: one token changed, or tokens added
\* at the end
TokenLines(toks, socPos, statePos) ==
    {Join(Repl(toks, c[1], c[2]), <<" ">>) :
        c \in TokenChanges(toks, socPos, statePos)}
    \cup {Join(toks \o <<TokX>>, <<" ">>),
          Join(toks \o <<Tok2, StrIdle, Tok255Pct>>, <<" ">>)}

BatTokenLinePool ==
    TokenLines(BatBaseTokens, 8, 4)
    \cup {Join(Repl(BatBaseTokens, 10, TokAh), <<" ">>),
          Join(Repl(BatBaseTokens, 10, TokAh) \o <<TokX>>, <<" ">>)}

PwrTokenLinePool ==
    TokenLines(PwrBaseTokens, 12, 8)
    \cup {Join(Repl(Repl(PwrBaseTokens, 8, StrIdle), 12, TokAbc), <<" ">>)}

TokenInit ==
    /\ kind \in {"BAT", "PWR"}
    /\ lines \in {<<l>> : l \in IF kind = "BAT" THEN BatTokenLinePool
                                ELSE PwrTokenLinePool}
    /\ lineIdx = 0
    /\ results = <<>>
    /\ origin = <<>>
    /\ log = <<>>
    /\ pc = "loop"
    /\ err = "unset"
    /\ BesideIdle

TokenSpec == TokenInit /\ [][Next]_vars

(***************************************************************************)
(* A whole parse call as a function of its argument: the loop body applied *)
(* to the lines in their order, then the check after the loop.             *)
(***************************************************************************)
\* the loop body of the parser of the record kind k
LineOutcome(k, raw, lineNo) ==
    IF k = "BAT" THEN BatLine(raw, lineNo) ELSE PwrLine(raw, lineNo)

\* results and the log after one more iteration, on the line raw; ok is
\* FALSE when an iteration ended in an index out of range
LoopBody(k, before, raw, lineNo) ==
    LET o == LineOutcome(k, raw, lineNo)
    IN  IF ~before.ok \/ o.out = "panic"
        THEN [before EXCEPT !.ok = FALSE]
        ELSE [ok |-> TRUE,
              results |-> IF o.out = "record"
                          THEN AppendStatus(before.results, o.rec)
                          ELSE before.results,
              log |-> before.log \o o.logs]

\* the iterations on the lines from..to of ls in their order, begun with
\* before: those of the first half of the lines, then those of the second
\* (after an index out of range no iteration follows)
RECURSIVE LoopOver(_, _, _, _, _)
LoopOver(k, before, ls, from, to) ==
    IF from > to THEN before
    ELSE IF from = to THEN LoopBody(k, before, ls[from], from)
    ELSE LET mid == (from + to) \div 2
             half == LoopOver(k, before, ls, from, mid)
         IN  IF ~half.ok THEN half ELSE LoopOver(k, half, ls, mid + 1, to)

\* results and the log after the loop went through the first n lines of ls
ParseLoop(k, ls, n) ==
    LoopOver(k, [ok |-> TRUE, results |-> <<>>, log |-> <<>>], ls, 1, n)

\* a variant of AfterLoop: a batch of data lines that were all dropped is
\* returned with an error
AfterLoopFailing(k, ls, loop) ==
    [ok |-> loop.ok, results |-> loop.results,
     err |-> IF (IF k = "BAT" THEN BatEmptyWarning(ls, loop.results)
                 ELSE PwrEmptyWarning(ls, loop.results)) = <<>>
             THEN "nil" ELSE "error",
     log |-> loop.log \o (IF k = "BAT" THEN BatEmptyWarning(ls, loop.results)
                          ELSE PwrEmptyWarning(ls, loop.results))]

\* the check after the loop, and return results, nil
AfterLoop(k, ls, loop) ==
    [ok |-> loop.ok, results |-> loop.results, err |-> "nil",
     log |-> loop.log \o (IF k = "BAT" THEN BatEmptyWarning(ls, loop.results)
                          ELSE PwrEmptyWarning(ls, loop.results))]

\* ParseBAT(lines): what the call returns and what it logs
ParseBAT(ls) == AfterLoop("BAT", ls, ParseLoop("BAT", ls, Len(ls)))

\* ParsePWR(lines): what the call returns and what it logs
ParsePWR(ls) == AfterLoop("PWR", ls, ParseLoop("PWR", ls, Len(ls)))

(***************************************************************************)
(* Concurrent parse calls: every caller of Procs calls ParseBAT or         *)
(* ParsePWR on a line sequence of its own, again and again, and the loop   *)
(* iterations of the callers interleave.  What a call holds (lines,        *)
(* lineIdx, results, the compiled expression) is local to it; the package  *)
(* variable baseStateMap is only read.                                     *)
(***************************************************************************)
ConcBatPool ==
    {Join(BatBaseTokens, <<" ">>),
     Join(Repl(BatBaseTokens, 8, TokAbc), <<" ">>)}

ConcPwrPool ==
    {Join(PwrBaseTokens, <<" ">>),
     Join(Repl(PwrBaseTokens, 1, TokDash), <<" ">>)}

\* the arguments of a concurrent call: the record kind and the lines
ConcInputs ==
    {<<"BAT", ls>> : ls \in LineSeqs(ConcBatPool)}
    \cup {<<"PWR", ls>> : ls \in LineSeqs(ConcPwrPool)}

\* a variant of FreshResults: results is a package variable, so a call
\* starts with what the call before left in it
KeptResults(left) == left

\* var results []BatteryStatus (or []PowerStatus): the local variable of a
\* new call is the empty slice, whatever the call before left
FreshResults(left) == <<>>

\* a caller at the entry of a call on the input in
NewCall(in, left) ==
    [kind |-> in[1], lines |-> in[2], lineIdx |-> 0,
     results |-> FreshResults(left), pc |-> "loop"]

ConcInit ==
    /\ calls \in [Procs -> {NewCall(in, <<>>) : in \in ConcInputs}]
    /\ kind = "BAT"
    /\ lines = <<>>
    /\ lineIdx = 0
    /\ results = <<>>
    /\ origin = <<>>
    /\ log = <<>>
    /\ pc = "done"
    /\ err = "nil"
    /\ MainAt("off")

\* the caller p, whose call has returned, calls again
CallStart(p) ==
    /\ calls[p].pc = "done"
    /\ \E in \in ConcInputs :
          calls' = [calls EXCEPT ![p] = NewCall(in, calls[p].results)]
    /\ UNCHANGED <<parserVars, mainVars>>

\* one iteration of the loop of the call of p
CallIterate(p) ==
    /\ calls[p].pc = "loop"
    /\ calls[p].lineIdx < Len(calls[p].lines)
    /\ LET c == calls[p]
           o == LineOutcome(c.kind, c.lines[c.lineIdx + 1], c.lineIdx + 1)
       IN  calls' =
             [calls EXCEPT ![p] =
                IF o.out = "panic" THEN [c EXCEPT !.pc = "panic"]
                ELSE [c EXCEPT !.lineIdx = c.lineIdx + 1,
                               !.results =
                                   IF o.out = "record"
                                   THEN AppendStatus(c.results, o.rec)
                                   ELSE c.results]]
    /\ UNCHANGED <<parserVars, mainVars>>

\* the call of p returns results
CallReturn(p) ==
    /\ calls[p].pc = "loop"
    /\ calls[p].lineIdx = Len(calls[p].lines)
    /\ calls' = [calls EXCEPT ![p].pc = "done"]
    /\ UNCHANGED <<parserVars, mainVars>>

ConcNext == \E p \in Procs : CallStart(p) \/ CallIterate(p) \/ CallReturn(p)

ConcSpec == ConcInit /\ [][ConcNext]_vars

(***************************************************************************)
(* The metrics package (src/unnamed/part_000).  A gauge or counter vector  *)
(* is a function from label values to the value of the child; a child      *)
(* exists once WithLabelValues was called for it.  A float64 is written as *)
(* the fraction num/den it was computed from.                              *)
(***************************************************************************)
\* the child key of vec is set to val
SetChild(vec, key, val) == (key :> val) @@ vec

\* the value of the child key of the counter vector vec, 0 when it has none
CounterValue(vec, key) == IF key \in DOMAIN vec THEN vec[key] ELSE 0

\* float64(n) / d
Frac(n, d) == [num |-> n, den |-> d]

DigitChar(d) == CHOOSE c \in Digits : DigitVal(c) = d

RECURSIVE NatDigits(_)
NatDigits(n) ==
    IF n < 10 THEN <<DigitChar(n)>>
    ELSE Append(NatDigits(n \div 10), DigitChar(n % 10))

\* strconv.Itoa
Itoa(n) == IF n < 0 THEN <<"-">> \o NatDigits(0 - n) ELSE NatDigits(n)

RECURSIVE Pow10(_)
Pow10(n) == IF n = 0 THEN 1 ELSE 10 * Pow10(n - 1)

\* strconv.ParseFloat(s, 64) on the decimal forms: an optional sign, digits
\* with at most one point among them, one digit at least.  (Exponents,
\* hexadecimal forms, "inf" and "nan" are not modelled; no line of the
\* pools holds one.)
ParseFloat(s) ==
    LET signed == Len(s) >= 1 /\ s[1] \in {"+", "-"}
        neg == Len(s) >= 1 /\ s[1] = "-"
        m == IF signed THEN Tail(s) ELSE s
        points == {i \in 1..Len(m) : m[i] = "."}
        point == IF points = {} THEN Len(m) + 1 ELSE CHOOSE i \in points : TRUE
        d == SubSeq(m, 1, point - 1) \o SubSeq(m, point + 1, Len(m))
    IN  IF Cardinality(points) > 1 \/ d = <<>> \/ ~AllDigits(d)
        THEN [ok |-> FALSE, val |-> Frac(0, 1)]
        ELSE [ok |-> TRUE,
              val |-> Frac(IF neg THEN 0 - DigitsValue(d, 0)
                           ELSE DigitsValue(d, 0),
                           Pow10(IF points = {} THEN 0 ELSE Len(m) - point))]

\* strings.Count(s, "1")
CountOnes(s) == Cardinality({i \in 1..Len(s) : s[i] = "1"})

\* activeBalanceChannels of UpdateBatteryMetrics
ActiveBalanceChannels(bal) ==
    IF bal = <<"Y">> THEN 1
    ELSE IF bal # <<>> /\ bal # <<"N">> THEN CountOnes(bal)
    ELSE 0

\* the values UpdateBatteryMetrics sets on the seven battery gauges
BatteryValues(status) ==
    [volt |-> Frac(status.Volt, 1),
     curr |-> Frac(status.Curr, 1),
     temp_celsius |-> Frac(status.Temp, 1000),
     base_state |-> Frac(status.BaseState, 1),
     soc |-> Frac(status.SOC, 1),
     coulomb |-> Frac(status.Coulomb, 1),
     bal_active_count |-> Frac(ActiveBalanceChannels(status.BAL), 1)]

\* UpdateBatteryMetrics(unitLabel, status) on the battery gauges g
UpdateBatteryMetrics(g, unitLabel, status) ==
    SetChild(g, <<unitLabel, Itoa(status.ID)>>, BatteryValues(status))

\* the values UpdatePowerMetrics sets on the five gauges it always sets
PowerValues(status) ==
    [volt |-> Frac(status.Volt, 1),
     curr |-> Frac(status.Curr, 1),
     temp_celsius |-> Frac(status.Temp, 1000),
     base_state |-> Frac(status.BaseState, 1),
     soc_percent |-> Frac(status.Coulomb, 1)]

\* UpdatePowerMetrics(status) on the gauges g but mos_temp
UpdatePowerMetrics(g, status) ==
    SetChild(g, Itoa(status.ID), PowerValues(status))

\* a variant of UpdatePowerMosTemp: a MosTemp that is no float sets 0
UpdatePowerMosTempOrZero(g, status) ==
    LET mosTempFloat == ParseFloat(status.MosTemp)
    IN  SetChild(g, Itoa(status.ID),
                 IF mosTempFloat.ok
                 THEN Frac(mosTempFloat.val.num, mosTempFloat.val.den * 10)
                 ELSE Frac(0, 10))

\* UpdatePowerMetrics(status) on the gauge mos_temp: set to a tenth of
\* MosTemp when that parses as a float, left alone when it does not
UpdatePowerMosTemp(g, status) ==
    LET mosTempFloat == ParseFloat(status.MosTemp)
    IN  IF mosTempFloat.ok
        THEN SetChild(g, Itoa(status.ID),
                      Frac(mosTempFloat.val.num, mosTempFloat.val.den * 10))
        ELSE g

\* RecordError(errorType) on the counter vector c
RecordError(c, errorType) ==
    SetChild(c, errorType, CounterValue(c, errorType) + 1)

(***************************************************************************)
(* main (src/README.md, "main.go"): at every tick processPWRData, then     *)
(* processBATData with the count it returned.  FetchConsoleOutput          *)
(* (src/src/fetcher/fetcher.go) answers any lines with or without an       *)
(* error; with an error the lines are those read before it.                *)
(***************************************************************************)
\* the ticks a run is followed for
MaxCycles == 2

\* the commands of one cycle a run is followed for
MaxCommands == 130

\* the largest int8: processPWRData returns int8(len(pwrData))
MaxInt8 == 127

\* "1 5012 0 170 ... Dischg ... 85% d t Normal Normal - Normal": the unit
\* of the well-formed line with another voltage and no MOS temperature
PwrOtherTokens ==
    Repl(Repl(PwrBaseTokens, 1, <<"5", "0", "1", "2">>), 17, TokDash)

\* "2 4990 ...": the well-formed line of a second unit
PwrSecondTokens == Repl(PwrBaseTokens, 0, Tok2)

MainPwrBase == Join(PwrBaseTokens, <<" ">>)
MainPwrOther == Join(PwrOtherTokens, <<" ">>)
MainPwrSecond == Join(PwrSecondTokens, <<" ">>)
MainPwrAbsent ==
    Join(<<Tok2>> \o [i \in 1..7 |-> TokDash] \o <<StrAbsent>>
             \o [i \in 1..7 |-> TokDash], <<" ">>)

\* n times the line l
Copies(l, n) == [i \in 1..n |-> l]

\* the answers to "pwr" of a rack of a few units
PwrShortAnswers ==
    {<<>>,
     <<MainPwrAbsent>>,
     <<MainPwrBase>>,
     <<MainPwrOther, MainPwrAbsent>>,
     <<MainPwrBase, MainPwrSecond>>,
     <<MainPwrBase, MainPwrOther>>,
     \* a line a token short, and a line whose voltage is no number
     <<Join(SubSeq(PwrBaseTokens, 1, 18), <<" ">>),
       Join(Repl(PwrBaseTokens, 1, TokDash), <<" ">>)>>}

\* the answers to "pwr" with as many data lines as an int8 holds, and one more
PwrLongAnswers == {Copies(MainPwrBase, n) : n \in {MaxInt8, MaxInt8 + 1}}

MainBatBase == Join(BatBaseTokens, <<" ">>)
\* the cell of the well-formed line with another voltage and no SOC
MainBatOther ==
    Join(Repl(Repl(BatBaseTokens, 1, <<"3", "2", "9", "9">>), 8, TokAbc),
         <<" ">>)
\* a line that is dropped: its voltage is no number
MainBatBad == Join(Repl(BatBaseTokens, 1, Tok37x), <<" ">>)

\* the answers to a BAT command
BatAnswers ==
    {<<>>,
     <<MainBatBase>>,
     <<MainBatOther>>,
     <<MainBatBad>>,
     <<MainBatBase, MainBatOther>>,
     \* a header line, and a line a token short
     <<<<"B", "a", "t", "t", "e", "r", "y", " ", "V", "o", "l", "t">>,
       Join(SubSeq(BatBaseTokens, 1, 11), <<" ">>)>>}

\* what FetchConsoleOutput returns
Fetched(e, ls) == [err |-> e, lines |-> ls]

\* the outcomes of FetchConsoleOutput("pwr") in the cycle after c cycles;
\* the long answers are followed in the first cycle
PwrFetches(c) ==
    {Fetched(FALSE, ls) : ls \in PwrShortAnswers}
    \cup {Fetched(FALSE, ls) : ls \in IF c = 0 THEN PwrLongAnswers ELSE {}}
    \cup {Fetched(TRUE, ls) : ls \in {<<>>, <<MainPwrBase>>}}

\* the outcomes of FetchConsoleOutput("bat+<unit>") when count units are
\* asked in the cycle; a cycle of more units than a rack has is followed
\* with the empty answer only
BatFetches(count) ==
    IF count > MaxLines THEN {Fetched(FALSE, <<>>)}
    ELSE {Fetched(FALSE, ls) : ls \in BatAnswers}
         \cup {Fetched(TRUE, ls) : ls \in {<<>>, <<MainBatBase>>}}

StrPwr == <<"p", "w", "r">>
StrBat == <<"b", "a", "t">>
StrPwrFetch == <<"p", "w", "r", "_", "f", "e", "t", "c", "h">>
StrPwrParse == <<"p", "w", "r", "_", "p", "a", "r", "s", "e">>
StrBatFetch == <<"b", "a", "t", "_", "f", "e", "t", "c", "h", "_">>
StrBatParse == <<"b", "a", "t", "_", "p", "a", "r", "s", "e", "_">>

\* commandToFetch and unitMetricLabel of processBATData
CommandToFetch(u) == StrBat \o <<"+">> \o Itoa(u)
UnitMetricLabel(u) == StrBat \o Itoa(u)

\* what a cycle did for one command: the fetch and whether it succeeded,
\* the lines it returned, whether the parser was called on them, the
\* records parsed and published, and the lines the parser logged
Event(cmd, f, parsed, recs, published, logged) ==
    [cmd |-> cmd, ok |-> ~f.err, read |-> Len(f.lines), parsed |-> parsed,
     records |-> recs, published |-> published, logged |-> logged]

\* the failed fetches of every command, after the fetch of cmd returned f
CountFailure(failures, cmd, f) ==
    IF f.err THEN SetChild(failures, cmd, CounterValue(failures, cmd) + 1)
    ELSE failures

\* one call of the metrics package for the record status: what names the
\* gauges g ("last": no gauge but the last record parsed for an identity)
Update(what, g, label, status) ==
    CASE what = "power" -> UpdatePowerMetrics(g, status)
      [] what = "mos_temp" -> UpdatePowerMosTemp(g, status)
      [] what = "battery" -> UpdateBatteryMetrics(g, label, status)
      [] what = "lastPwr" -> SetChild(g, Itoa(status.ID), status)
      [] what = "lastMos" -> IF ParseFloat(status.MosTemp).ok
                             THEN SetChild(g, Itoa(status.ID), status)
                             ELSE g
      [] what = "lastBat" -> SetChild(g, <<label, Itoa(status.ID)>>, status)

\* for _, status := range recs[from..to] { metrics.Update..(status) }: the
\* first half of the records, then the second (the comparison has TLC
\* compute the first half before it enters the second)
RECURSIVE Range(_, _, _, _, _, _)
Range(what, g, label, recs, from, to) ==
    IF from > to THEN g
    ELSE IF from = to THEN Update(what, g, label, recs[from])
    ELSE LET mid == (from + to) \div 2
             half == Range(what, g, label, recs, from, mid)
         IN  IF half = g THEN Range(what, g, label, recs, mid + 1, to)
             ELSE Range(what, half, label, recs, mid + 1, to)

\* for _, status := range pwrData { metrics.UpdatePowerMetrics(status) }
RangeUpdatePower(g, recs) == Range("power", g, <<>>, recs, 1, Len(recs))

RangeUpdateMosTemp(g, recs) == Range("mos_temp", g, <<>>, recs, 1, Len(recs))

\* for _, status := range batDataForUnit { metrics.UpdateBatteryMetrics(..) }
RangeUpdateBattery(g, label, recs) ==
    Range("battery", g, label, recs, 1, Len(recs))

\* the last record parsed for every identity: what was parsed before, then
\* the records recs in their order
LastPower(last, recs) == Range("lastPwr", last, <<>>, recs, 1, Len(recs))

LastMosTemp(last, recs) == Range("lastMos", last, <<>>, recs, 1, Len(recs))

LastBattery(last, label, recs) ==
    Range("lastBat", last, label, recs, 1, Len(recs))

MainInit ==
    /\ kind = "BAT"
    /\ lines = <<>>
    /\ lineIdx = 0
    /\ results = <<>>
    /\ origin = <<>>
    /\ log = <<>>
    /\ pc = "done"
    /\ err = "nil"
    /\ calls = [p \in Procs |-> NoCall]
    /\ MainAt("tick")

\* processPWRData after FetchConsoleOutput("pwr") returned f; parse is what
\* parser.ParsePWR returns for the lines of f, where the code calls it
PwrFetched(f, parse) ==
    IF f.err
    THEN /\ scrapeErrors' = RecordError(scrapeErrors, StrPwrFetch)
         /\ pwrUnitCount' = 0
         /\ trace' = <<Event(StrPwr, f, FALSE, 0, 0, 0)>>
         /\ UNCHANGED <<powerGauges, powerMosTemp, lastPwr, lastMos>>
    ELSE IF parse.err # "nil"
    THEN /\ scrapeErrors' = RecordError(scrapeErrors, StrPwrParse)
         /\ pwrUnitCount' = 0
         /\ trace' = <<Event(StrPwr, f, TRUE, 0, 0, Len(parse.log))>>
         /\ UNCHANGED <<powerGauges, powerMosTemp, lastPwr, lastMos>>
    ELSE /\ powerGauges' = RangeUpdatePower(powerGauges, parse.results)
         /\ powerMosTemp' = RangeUpdateMosTemp(powerMosTemp, parse.results)
         /\ lastPwr' = LastPower(lastPwr, parse.results)
         /\ lastMos' = LastMosTemp(lastMos, parse.results)
         /\ pwrUnitCount' = Int8(Len(parse.results))
         /\ trace' = <<Event(StrPwr, f, TRUE, Len(parse.results),
                             Len(parse.results), Len(parse.log))>>
         /\ UNCHANGED scrapeErrors

\* <-ticker.C; pwrUnitCount := processPWRData(); processBATData is entered
processPWRData ==
    /\ mainPc = "tick"
    /\ cycle < MaxCycles
    /\ \E f \in PwrFetches(cycle) :
          /\ PwrFetched(f, ParsePWR(f.lines))
          /\ fetchFailures' = CountFailure(fetchFailures, StrPwr, f)
    /\ cycle' = cycle + 1
    /\ unitNum' = 1
    /\ mainPc' = "bat"
    /\ UNCHANGED <<batteryGauges, lastBat, parserVars, calls>>

\* a variant of BatFetched: after a failed fetch the error is recorded and
\* the lines read before the error are parsed and published
BatFetchedLenient(cmd, label, f, parse) ==
    /\ scrapeErrors' =
           IF f.err THEN RecordError(scrapeErrors, StrBatFetch \o label)
           ELSE scrapeErrors
    /\ batteryGauges' = RangeUpdateBattery(batteryGauges, label, parse.results)
    /\ lastBat' = LastBattery(lastBat, label, parse.results)
    /\ trace' = Append(trace, Event(cmd, f, TRUE, Len(parse.results),
                                    Len(parse.results), Len(parse.log)))

\* the body of the loop of processBATData after FetchConsoleOutput(cmd)
\* returned f; parse is what parser.ParseBAT returns for the lines of f,
\* where the code calls it
BatFetched(cmd, label, f, parse) ==
    IF f.err
    THEN /\ scrapeErrors' = RecordError(scrapeErrors, StrBatFetch \o label)
         /\ trace' = Append(trace, Event(cmd, f, FALSE, 0, 0, 0))
         /\ UNCHANGED <<batteryGauges, lastBat>>
    ELSE IF parse.err # "nil"
    THEN /\ scrapeErrors' = RecordError(scrapeErrors, StrBatParse \o label)
         /\ trace' = Append(trace, Event(cmd, f, TRUE, 0, 0, Len(parse.log)))
         /\ UNCHANGED <<batteryGauges, lastBat>>
    ELSE /\ batteryGauges' =
                RangeUpdateBattery(batteryGauges, label, parse.results)
         /\ lastBat' = LastBattery(lastBat, label, parse.results)
         /\ trace' = Append(trace, Event(cmd, f, TRUE, Len(parse.results),
                                         Len(parse.results), Len(parse.log)))
         /\ UNCHANGED scrapeErrors

\* one turn of the loop of processBATData: unitNum <= pwrUnitCount, the
\* body, unitNum++
processBATUnit ==
    /\ mainPc = "bat"
    /\ pwrUnitCount > 0
    /\ unitNum <= pwrUnitCount
    /\ Len(trace) < MaxCommands
    /\ \E f \in BatFetches(pwrUnitCount) :
          /\ BatFetched(CommandToFetch(unitNum), UnitMetricLabel(unitNum),
                        f, ParseBAT(f.lines))
          /\ fetchFailures' =
                 CountFailure(fetchFailures, CommandToFetch(unitNum), f)
    /\ unitNum' = Int8(unitNum + 1)
    /\ UNCHANGED <<mainPc, cycle, pwrUnitCount, powerGauges, powerMosTemp,
                   lastPwr, lastMos, parserVars, calls>>

\* processBATData returns: pwrUnitCount <= 0, or the loop has ended
processBATReturn ==
    /\ mainPc = "bat"
    /\ pwrUnitCount <= 0 \/ unitNum > pwrUnitCount
    /\ mainPc' = "tick"
    /\ UNCHANGED <<cycle, pwrUnitCount, unitNum, scrapeErrors, batteryGauges,
                   powerGauges, powerMosTemp, trace, lastBat, lastPwr, lastMos,
                   fetchFailures,
                   parserVars, calls>>

MainNext == processPWRData \/ processBATUnit \/ processBATReturn

MainSpec == MainInit /\ [][MainNext]_vars

(***************************************************************************)
(* What a parse call shows of a line: the records appended for it and the  *)
(* log lines that name it.                                                 *)
(***************************************************************************)
\* the tokens of the i-th line
Toks(i) == Fields(TrimSpace(lines[i]))

\* the positions in results of the records appended for line i
RecordsOf(i) == {k \in 1..Len(results) : origin[k] = i}

\* the positions in log of the events of the kinds evs that name line i
DiagsOf(i, evs) == {k \in 1..Len(log) : log[k].line = i /\ log[k].ev \in evs}

\* the per-line drop diagnostics
DropEvents == {"structural", "critical"}
\* every per-line event
LineEvents == {"noise", "structural", "critical", "degraded"}

\* the trimmed line t is classified Data by the call's record kind
IsDataLine(t) == IF kind = "BAT" THEN BatIsDataLine(t) ELSE PwrIsDataLine(t)

\* the token minimum of the call's record kind
MinFields == IF kind = "BAT" THEN BatMinFields ELSE PwrMinFields

\* tokens 0 to 3 of f are there and decode as integers
CriticalDecodes(f) == Len(f) >= 4 /\ \A j \in 1..4 : Atoi(f[j]).ok

\* what the claims say of line i: its tokens f; data, it is classified
\* Data; full, it has the token minimum; crit, its critical fields decode;
\* accepted, all three
LineFacts(i) ==
    LET t == TrimSpace(lines[i])
        f == Fields(t)
        data == IsDataLine(t)
        full == Len(f) >= MinFields
        crit == CriticalDecodes(f)
    IN  [f |-> f, data |-> data, full |-> full, crit |-> crit,
         accepted |-> data /\ full /\ crit]

(***************************************************************************)
(* C1: in ParseBAT and ParsePWR a Data line with the minimum token count   *)
(* whose token 0, 1, 2 or 3 fails integer decoding contributes no record,  *)
(* and the loop goes on to the next line; every record of the result has   *)
(* ID, Volt, Curr and Temp equal to the decoded integers of tokens 0 to 3  *)
(* of its line.                                                            *)
(***************************************************************************)
C1_CriticalFailureDropsLine ==
    /\ pc # "panic"
    /\ pc = "done" => lineIdx = Len(lines)
    /\ \A k \in 1..Len(origin) : origin[k] \in 1..lineIdx
    /\ \A i \in 1..lineIdx :
          LET l == LineFacts(i)
          IN  /\ (l.data /\ l.full /\ ~l.crit) => RecordsOf(i) = {}
              /\ \A k \in RecordsOf(i) :
                    /\ l.crit
                    /\ results[k].ID = Atoi(l.f[1]).val
                    /\ results[k].Volt = Atoi(l.f[2]).val
                    /\ results[k].Curr = Atoi(l.f[3]).val
                    /\ results[k].Temp = Atoi(l.f[4]).val

\* a call that dropped a line for a critical field and then appended a
\* record for a later line
C1_Witness ==
    /\ pc = "done"
    /\ \E i, j \in 1..Len(lines) :
          /\ i < j
          /\ LineFacts(i).data /\ LineFacts(i).full /\ ~LineFacts(i).crit
          /\ DiagsOf(i, {"critical"}) # {}
          /\ RecordsOf(i) = {}
          /\ RecordsOf(j) # {}

(***************************************************************************)
(* C2: in ParseBAT a line that passes the classification, the 12-token     *)
(* minimum and the four critical fields yields exactly one record, also    *)
(* when its SOC token (position 8) or its capacity token (position 9)      *)
(* fails to decode; the failed field is -1 and every other field is what   *)
(* its own token decodes to, whatever the other token does.                *)
(***************************************************************************)
C2_DegradedRecordKept ==
    kind = "BAT" =>
        \A i \in 1..lineIdx :
            LET l == LineFacts(i)
                f == l.f
                soc == Atoi(TrimSuffixPercent(f[9]))
                cap == Atoi(f[10])
            IN  l.accepted =>
                    /\ Cardinality(RecordsOf(i)) = 1
                    /\ \A k \in RecordsOf(i) :
                          /\ results[k].SOC =
                                IF soc.ok THEN Int8(soc.val) ELSE -1
                          /\ results[k].Coulomb =
                                IF cap.ok THEN cap.val ELSE -1
                          /\ results[k].ID = Atoi(f[1]).val
                          /\ results[k].Volt = Atoi(f[2]).val
                          /\ results[k].Curr = Atoi(f[3]).val
                          /\ results[k].Temp = Atoi(f[4]).val
                          /\ results[k].BaseState = parseBaseState(f[5])
                          /\ results[k].VoltState = f[6]
                          /\ results[k].CurrState = f[7]
                          /\ results[k].TempState = f[8]
                          /\ results[k].BAL = f[12]

\* a returned ParseBAT call with a record whose SOC token failed to decode
\* while its capacity token decoded, and a record with the converse
C2_Witness ==
    /\ kind = "BAT"
    /\ pc = "done"
    /\ \E k \in 1..Len(results) :
          /\ ~Atoi(TrimSuffixPercent(Toks(origin[k])[9])).ok
          /\ Atoi(Toks(origin[k])[10]).ok
          /\ results[k].SOC = -1
          /\ results[k].Coulomb # -1
    /\ \E k \in 1..Len(results) :
          /\ Atoi(TrimSuffixPercent(Toks(origin[k])[9])).ok
          /\ ~Atoi(Toks(origin[k])[10]).ok
          /\ results[k].SOC # -1
          /\ results[k].Coulomb = -1

(***************************************************************************)
(* C3: every line a parse call has gone through had exactly one of three   *)
(* outcomes: a Noise line gave no record and no log line; a Data line with *)
(* the token minimum and decodable critical fields gave exactly one record *)
(* and no drop diagnostic; any other Data line gave no record and exactly  *)
(* one drop diagnostic.  So the records and the drop diagnostics together  *)
(* are as many as the Data lines.                                          *)
(***************************************************************************)
C3_OneOutcomePerLine ==
    /\ \A i \in 1..lineIdx :
          LET l == LineFacts(i)
              recs == Cardinality(RecordsOf(i))
              drops == Cardinality(DiagsOf(i, DropEvents))
          IN  /\ ~l.data => recs = 0 /\ DiagsOf(i, LineEvents) = {}
              /\ l.accepted => recs = 1 /\ drops = 0
              /\ (l.data /\ ~l.accepted) => recs = 0 /\ drops = 1
    /\ Len(results)
         + Cardinality({k \in 1..Len(log) : log[k].ev \in DropEvents})
       = Cardinality({i \in 1..lineIdx : LineFacts(i).data})

\* a returned call on one valid line and one short data line: one record
\* and one structural-skip diagnostic
C3_Witness ==
    /\ pc = "done"
    /\ Len(lines) = 2
    /\ LineFacts(1).accepted
    /\ LineFacts(2).data /\ ~LineFacts(2).full
    /\ Len(results) = 1
    /\ Cardinality({k \in 1..Len(log) : log[k].ev = "structural"}) = 1
    /\ Cardinality({k \in 1..Len(log) : log[k].ev \in DropEvents}) = 1

(***************************************************************************)
(* C4: a line with fewer tokens than the minimum of its record kind (12    *)
(* for ParseBAT, 19 for ParsePWR) never gives a record, and when it is a   *)
(* line of that kind (classified Data) exactly one structural-skip         *)
(* diagnostic names it.                                                    *)
(***************************************************************************)
C4_ShortLineRejected ==
    \A i \in 1..lineIdx :
        LET l == LineFacts(i)
        IN  Len(l.f) < (IF kind = "BAT" THEN 12 ELSE 19) =>
                /\ RecordsOf(i) = {}
                /\ l.data =>
                      /\ Cardinality(DiagsOf(i, {"structural"})) = 1
                      /\ DiagsOf(i, {"critical", "degraded"}) = {}

\* a returned ParsePWR call with an 18-token data line, logged and dropped
C4_Witness ==
    /\ kind = "PWR"
    /\ pc = "done"
    /\ \E i \in 1..Len(lines) :
          /\ LineFacts(i).data
          /\ Len(Toks(i)) = 18
          /\ RecordsOf(i) = {}
          /\ Cardinality(DiagsOf(i, {"structural"})) = 1

(***************************************************************************)
(* C5: the result of ParseBAT and ParsePWR is the records of the accepted  *)
(* lines in the order of the input, one record per accepted line: nothing  *)
(* is reordered and nothing is dropped as a duplicate.                     *)
(***************************************************************************)
\* the record the loop body makes of line i
RecordOfLine(i) ==
    IF kind = "BAT" THEN BatLine(lines[i], i).rec ELSE PwrLine(lines[i], i).rec

\* the numbers of the accepted lines among the first n, ascending
RECURSIVE AcceptedUpTo(_)
AcceptedUpTo(n) ==
    IF n = 0 THEN <<>>
    ELSE IF LineFacts(n).accepted THEN Append(AcceptedUpTo(n - 1), n)
    ELSE AcceptedUpTo(n - 1)

C5_InputOrderKept ==
    LET acc == AcceptedUpTo(lineIdx)
    IN  /\ Len(results) = Len(acc)
        /\ \A k \in 1..Len(acc) : results[k] = RecordOfLine(acc[k])
        /\ \A k1, k2 \in 1..Len(origin) : k1 < k2 => origin[k1] < origin[k2]

\* a returned call with two records of the same identity, made of two
\* different lines
C5_Witness ==
    /\ pc = "done"
    /\ Len(results) = 2
    /\ results[1].ID = results[2].ID
    /\ results[1] # results[2]

(***************************************************************************)
(* C6: ParseBAT and ParsePWR never fail for what the lines hold: whatever  *)
(* the input (empty, all noise, all malformed, mixed) the call goes        *)
(* through the lines without an index out of range: each step takes the   *)
(* next line or, after the last line, returns; and the call returns the    *)
(* error nil.                                                              *)
(***************************************************************************)
C6_NeverFails ==
    /\ [](pc \in {"loop", "done"})
    /\ [](pc = "loop" => lineIdx <= Len(lines) /\ err = "unset")
    /\ [](pc = "done" => lineIdx = Len(lines) /\ err = "nil")
    /\ [][\/ pc' = "loop" /\ lineIdx' = lineIdx + 1
          \/ pc' = "done" /\ lineIdx = Len(lines) /\ results' = results]_vars

\* a returned call whose lines were all data lines and all dropped: nil,
\* and no record
C6_Witness ==
    /\ pc = "done"
    /\ err = "nil"
    /\ results = <<>>
    /\ Len(lines) >= 2
    /\ \A i \in 1..Len(lines) : DiagsOf(i, DropEvents) # {}

(***************************************************************************)
(* C7: ParsePWR appends no record for a line that contains "Absent",       *)
(* whatever else the line holds.                                           *)
(***************************************************************************)
C7_AbsentPowerLineNoRecord ==
    kind = "PWR" =>
        \A i \in 1..lineIdx :
            Contains(lines[i], StrAbsent) => RecordsOf(i) = {}

\* a returned ParsePWR call with a line that contains "Absent" inside a
\* longer token and otherwise is a full data line with decodable critical
\* fields, and no record for it
C7_Witness ==
    /\ kind = "PWR"
    /\ pc = "done"
    /\ \E i \in 1..Len(lines) :
          /\ Contains(lines[i], StrAbsent)
          /\ StrAbsent \notin {Toks(i)[j] : j \in 1..Len(Toks(i))}
          /\ MatchPwrRegex(TrimSpace(lines[i]))
          /\ Len(Toks(i)) >= 19
          /\ CriticalDecodes(Toks(i))
          /\ RecordsOf(i) = {}

(***************************************************************************)
(* C8 as claimed: ParseBAT appends no record for a line that contains      *)
(* "Absent".                                                               *)
(***************************************************************************)
C8_Original_AbsentBatteryLineNoRecord ==
    kind = "BAT" =>
        \A i \in 1..lineIdx :
            Contains(lines[i], StrAbsent) => RecordsOf(i) = {}

(***************************************************************************)
(* C8 as amended: ParseBAT has no "Absent" rule.  A line that contains     *)
(* "Absent" gives a record exactly when any line does: when the trimmed    *)
(* line matches the two-number prefix, has 12 or more tokens and its       *)
(* critical fields decode; "Absent" at the state position decodes to the   *)
(* state -1.                                                               *)
(***************************************************************************)
C8_AbsentBatteryLineLikeAnyOther ==
    kind = "BAT" =>
        \A i \in 1..lineIdx :
            LET t == TrimSpace(lines[i])
                f == Fields(t)
            IN  Contains(lines[i], StrAbsent) =>
                    /\ RecordsOf(i) # {} <=>
                          /\ MatchBatRegex(t)
                          /\ Len(f) >= 12
                          /\ CriticalDecodes(f)
                    /\ \A k \in RecordsOf(i) :
                          f[5] = StrAbsent => results[k].BaseState = -1

\* a returned ParseBAT call with a record made of a line that contains
\* "Absent"
C8_Witness ==
    /\ kind = "BAT"
    /\ pc = "done"
    /\ \E k \in 1..Len(results) :
          /\ Contains(lines[origin[k]], StrAbsent)
          /\ results[k].BaseState = -1

(***************************************************************************)
(* C9: a parse call prints the batch-level warning exactly once when the   *)
(* input holds at least one line classified Data and the call appended no  *)
(* record, and never otherwise.  An empty input gives no record and no     *)
(* log line at all.                                                        *)
(***************************************************************************)
BatchWarnings == Cardinality({k \in 1..Len(log) : log[k].ev = "batch_empty"})

C9_EmptyBatchWarning ==
    /\ pc # "done" => BatchWarnings = 0
    /\ pc = "done" =>
          BatchWarnings =
              IF Len(results) = 0
                 /\ \E i \in 1..Len(lines) : IsDataLine(TrimSpace(lines[i]))
              THEN 1 ELSE 0
    /\ (pc = "done" /\ lines = <<>>) => results = <<>> /\ log = <<>>

\* a returned call on one data line whose critical field does not decode:
\* no record, one critical-field diagnostic, then the batch warning
C9_Witness ==
    /\ pc = "done"
    /\ Len(lines) = 1
    /\ LineFacts(1).data /\ LineFacts(1).full /\ ~LineFacts(1).crit
    /\ results = <<>>
    /\ Len(log) = 2
    /\ log[1].ev = "critical"
    /\ log[2].ev = "batch_empty"

(***************************************************************************)
(* C10 as claimed: ParseBAT takes a line past the line test (to the        *)
(* token-count check, and so to a log line or a record) only if the first  *)
(* two tokens of the line are integers.                                    *)
(***************************************************************************)
\* t is written as an integer: an optional sign, then digits only
IsIntegerToken(t) ==
    \/ t # <<>> /\ AllDigits(t)
    \/ Len(t) >= 2 /\ t[1] \in {"+", "-"} /\ AllDigits(Tail(t))

\* the loop went past the line test for line i: it logged or appended
PastLineTest(i) == RecordsOf(i) # {} \/ DiagsOf(i, LineEvents) # {}

C10_Original_DataOnlyIfTwoIntegers ==
    kind = "BAT" =>
        \A i \in 1..lineIdx :
            LET f == Toks(i)
            IN  PastLineTest(i) =>
                    /\ Len(f) >= 2
                    /\ IsIntegerToken(f[1])
                    /\ IsIntegerToken(f[2])

(***************************************************************************)
(* C10 as amended: ParseBAT takes a line past the line test only if the    *)
(* trimmed line starts with decimal digits, white space and one more       *)
(* decimal digit: token 0 is all digits and token 1 starts with a digit    *)
(* (what follows that digit is not looked at).  Every other line, the      *)
(* empty and the white-space-only line among them, gives no log line and   *)
(* no record.                                                              *)
(***************************************************************************)
C10_DataOnlyIfTwoNumberPrefix ==
    kind = "BAT" =>
        \A i \in 1..lineIdx :
            LET f == Toks(i)
            IN  /\ PastLineTest(i) =>
                      /\ Len(f) >= 2
                      /\ AllDigits(f[1])
                      /\ IsDigit(f[2][1])
                /\ f = <<>> => ~PastLineTest(i)

\* a returned ParseBAT call that took a line whose second token is no
\* integer past the line test, and skipped an empty line
C10_Witness ==
    /\ kind = "BAT"
    /\ pc = "done"
    /\ \E i \in 1..Len(lines) :
          /\ DiagsOf(i, {"critical"}) # {}
          /\ ~IsIntegerToken(Toks(i)[2])
    /\ \E i \in 1..Len(lines) : Toks(i) = <<>> /\ ~PastLineTest(i)

(***************************************************************************)
(* C11: ParseBAT reads a fixed position layout.  The record of an accepted *)
(* line has ID, Volt, Curr, Temp from tokens 0 to 3, BaseState the state   *)
(* of token 4, VoltState, CurrState, TempState tokens 5 to 7, SOC the      *)
(* percentage of token 8, Coulomb the integer of token 9 and BAL token 11; *)
(* it is the same record whatever token 10 (the unit) is and whatever      *)
(* tokens follow position 11.  The line "1 3750 0 301 Charge Normal Normal *)
(* Normal 85% 3450 mAH 0000000000000000" gives ID 1, Volt 3750, Curr 0,    *)
(* Temp 301, BaseState 0, SOC 85, Coulomb 3450, BAL "0000000000000000".    *)
(***************************************************************************)
\* the state a token stands for
StateOf(t) ==
    CASE t = StrCharge -> 0
      [] t = StrDischg -> 1
      [] t = StrIdle -> 2
      [] t = StrBalance -> 3
      [] OTHER -> -1

\* the record the layout makes of the tokens f: positions 0 to 9 and 11
BatLayoutRecord(f) ==
    LET soc == Atoi(TrimSuffixPercent(f[9]))
        cap == Atoi(f[10])
    IN  [ID |-> Atoi(f[1]).val, Volt |-> Atoi(f[2]).val,
         Curr |-> Atoi(f[3]).val, Temp |-> Atoi(f[4]).val,
         BaseState |-> StateOf(f[5]),
         VoltState |-> f[6], CurrState |-> f[7], TempState |-> f[8],
         SOC |-> IF soc.ok THEN Int8(soc.val) ELSE -1,
         Coulomb |-> IF cap.ok THEN cap.val ELSE -1,
         BAL |-> f[12]]

\* f and g agree at the positions 0 to 9 and 11
SameBatLayoutTokens(f, g) ==
    /\ Len(f) >= 12 /\ Len(g) >= 12
    /\ SubSeq(f, 1, 10) = SubSeq(g, 1, 10)
    /\ f[12] = g[12]

C11_BatteryLayout ==
    kind = "BAT" =>
        \A i \in 1..lineIdx :
            LET l == LineFacts(i)
            IN  l.accepted =>
                    /\ Cardinality(RecordsOf(i)) = 1
                    /\ \A k \in RecordsOf(i) :
                          /\ results[k] = BatLayoutRecord(l.f)
                          /\ SameBatLayoutTokens(l.f, BatBaseTokens) =>
                                /\ results[k].ID = 1
                                /\ results[k].Volt = 3750
                                /\ results[k].Curr = 0
                                /\ results[k].Temp = 301
                                /\ results[k].BaseState = 0
                                /\ results[k].SOC = 85
                                /\ results[k].Coulomb = 3450
                                /\ results[k].BAL = TokBal

\* a returned ParseBAT call on the example line with another unit token and
\* one more token at its end: the record of the example line
C11_Witness ==
    /\ kind = "BAT"
    /\ pc = "done"
    /\ Len(lines) = 1
    /\ Len(Toks(1)) = 13
    /\ Toks(1)[11] # TokMAH
    /\ SameBatLayoutTokens(Toks(1), BatBaseTokens)
    /\ Len(results) = 1
    /\ results[1].Coulomb = 3450
    /\ results[1].BAL = TokBal

(***************************************************************************)
(* C12: ParsePWR reads a fixed position layout.  The record of an accepted *)
(* line (19 or more tokens) has ID, Volt, Curr, Temp from tokens 0 to 3,   *)
(* BaseState the state of token 8 (2 for "Idle"), VoltState, CurrState,    *)
(* TempState tokens 9 to 11, BVState, BTState, MosTemp, MTState tokens 15  *)
(* to 18 as they are written, and Coulomb the percentage of token 12, -1   *)
(* when that token does not decode; the record is produced all the same.   *)
(***************************************************************************)
PwrLayoutRecord(f) ==
    LET soc == Atoi(TrimSuffixPercent(f[13]))
    IN  [ID |-> Atoi(f[1]).val, Volt |-> Atoi(f[2]).val,
         Curr |-> Atoi(f[3]).val, Temp |-> Atoi(f[4]).val,
         BaseState |-> StateOf(f[9]),
         VoltState |-> f[10], CurrState |-> f[11], TempState |-> f[12],
         Coulomb |-> IF soc.ok THEN Int8(soc.val) ELSE -1,
         BVState |-> f[16], BTState |-> f[17],
         MosTemp |-> f[18], MTState |-> f[19]]

C12_PowerLayout ==
    kind = "PWR" =>
        \A i \in 1..lineIdx :
            LET l == LineFacts(i)
            IN  l.accepted =>
                    /\ Len(l.f) >= 19
                    /\ Cardinality(RecordsOf(i)) = 1
                    /\ \A k \in RecordsOf(i) :
                          /\ results[k] = PwrLayoutRecord(l.f)
                          /\ l.f[9] = StrIdle => results[k].BaseState = 2
                          /\ ~Atoi(TrimSuffixPercent(l.f[13])).ok =>
                                results[k].Coulomb = -1

\* a returned ParsePWR call on a line whose token 8 is "Idle" and whose
\* token 12 does not decode: one record, of state 2 and Coulomb -1
C12_Witness ==
    /\ kind = "PWR"
    /\ pc = "done"
    /\ Len(lines) = 1
    /\ Toks(1)[9] = StrIdle
    /\ Toks(1)[13] = TokAbc
    /\ Len(results) = 1
    /\ results[1].BaseState = 2
    /\ results[1].Coulomb = -1
    /\ results[1].MosTemp = <<"1", "8", "0">>

(***************************************************************************)
(* C13: state decoding is total and never fails: "Charge", "Dischg",       *)
(* "Idle", "Balance" decode to 0, 1, 2, 3 and every other token ("N/A",    *)
(* the empty string, other spellings and cases) to -1.  No line is dropped *)
(* because of its state token: a Data line with the token minimum gives a  *)
(* record exactly when its critical fields decode, whatever token stands   *)
(* at the state position, and the record's state is that token's state.    *)
(***************************************************************************)
\* the token at the state position of the tokens f
StateToken(f) == IF kind = "BAT" THEN f[5] ELSE f[9]

C13_StateDecodingTotal ==
    /\ parseBaseState(StrCharge) = 0
    /\ parseBaseState(StrDischg) = 1
    /\ parseBaseState(StrIdle) = 2
    /\ parseBaseState(StrBalance) = 3
    /\ \A t \in (StateTokens \cup {<<>>})
                  \ {StrCharge, StrDischg, StrIdle, StrBalance} :
          parseBaseState(t) = -1
    /\ \A i \in 1..lineIdx :
          LET l == LineFacts(i)
          IN  (l.data /\ l.full) =>
                  /\ RecordsOf(i) # {} <=> l.crit
                  /\ DiagsOf(i, DropEvents) # {} <=> ~l.crit
                  /\ \A k \in RecordsOf(i) :
                        /\ results[k].BaseState = StateOf(StateToken(l.f))
                        /\ results[k].BaseState \in -1..3

\* a returned call on a line whose state token is a key in another case:
\* one record, of state -1, and no log line
C13_Witness ==
    /\ pc = "done"
    /\ Len(lines) = 1
    /\ StateToken(Toks(1)) = <<"c", "h", "a", "r", "g", "e">>
    /\ Len(results) = 1
    /\ results[1].BaseState = -1
    /\ log = <<>>

(***************************************************************************)
(* C14: percentage decoding removes one trailing '%' when there is one and *)
(* then asks for a base-10 integer: "85%" and "85" decode to 85; a token   *)
(* that is no integer after the removal ("abc", "85%%") fails to decode,   *)
(* and in an otherwise valid line the record is kept with -1 in its        *)
(* percentage field.                                                       *)
(***************************************************************************)
\* the token at the percentage position of the tokens f
PctToken(f) == IF kind = "BAT" THEN f[9] ELSE f[13]

\* the percentage field of the record r
PctField(r) == IF kind = "BAT" THEN r.SOC ELSE r.Coulomb

\* t without its last character when that is '%'
WithoutOnePercent(t) ==
    IF t # <<>> /\ t[Len(t)] = "%" THEN SubSeq(t, 1, Len(t) - 1) ELSE t

\* the value of the integer token t
IntegerValue(t) ==
    IF t[1] = "-" THEN 0 - DigitsValue(Tail(t), 0)
    ELSE IF t[1] = "+" THEN DigitsValue(Tail(t), 0)
    ELSE DigitsValue(t, 0)

\* the integer token t has fewer digits than the greatest int, so it is
\* within the range of int
FitsInt(t) == Len(t) < Len(MaxInt64Digits)

C14_PercentageDecoding ==
    \A i \in 1..lineIdx :
        LET l == LineFacts(i)
            p == PctToken(l.f)
            n == WithoutOnePercent(p)
            warned == {k \in DiagsOf(i, {"degraded"}) : log[k].field = "SOC"}
        IN  l.accepted =>
                /\ Cardinality(RecordsOf(i)) = 1
                /\ \A k \in RecordsOf(i) :
                      /\ ~IsIntegerToken(n) =>
                            PctField(results[k]) = -1 /\ warned # {}
                      /\ (IsIntegerToken(n) /\ FitsInt(n)) =>
                            /\ PctField(results[k]) = Int8(IntegerValue(n))
                            /\ warned = {}
                      /\ p = <<"8", "5", "%">> => PctField(results[k]) = 85
                      /\ p = <<"8", "5">> => PctField(results[k]) = 85
                      /\ p = <<"a", "b", "c">> => PctField(results[k]) = -1
                      /\ p = <<"8", "5", "%", "%">> =>
                            PctField(results[k]) = -1

\* a returned call on a line whose percentage token is "85%%": the record
\* is kept, its percentage field is -1 and one warning was logged
C14_Witness ==
    /\ pc = "done"
    /\ Len(lines) = 1
    /\ PctToken(Toks(1)) = <<"8", "5", "%", "%">>
    /\ Len(results) = 1
    /\ PctField(results[1]) = -1
    /\ Len(log) = 1
    /\ log[1].ev = "degraded"

(***************************************************************************)
(* C15: the parser holds no state across calls.  What a call of ParseBAT   *)
(* or ParsePWR returns is a function of its own lines: it is the result of *)
(* that call run alone, whatever calls the caller made before and however  *)
(* the iterations of the other callers' calls interleave with it; so two   *)
(* calls on equal lines return equal results.                              *)
(***************************************************************************)
\* what a call of the record kind k on the lines ls returns when run alone
Alone(k, ls) == IF k = "BAT" THEN ParseBAT(ls) ELSE ParsePWR(ls)

Decodes(p) == Atoi(WithoutOnePercent(p)).ok

C17_SentinelIffDecodeFailure ==
    \A k \in 1..Len(results) :
        PctField(results[k]) = -1 <=> ~Decodes(PctToken(Toks(origin[k])))

(***************************************************************************)
(* The main loop: what a cycle does for a command is the event of the      *)
(* command in trace.                                                       *)
(***************************************************************************)
\* the event of the command a step has just run
LastEvent(tr) == tr[Len(tr)]

\* a step that runs a command: the first event of a cycle, or one more
CommandStep == trace' # trace /\ Len(trace') >= 1

\* the counter child that counts the failed fetches of the command cmd:
\* pwr_fetch, or bat_fetch_bat<n> for the command bat+<n>
FetchCounter(cmd) ==
    IF cmd = StrPwr THEN StrPwrFetch
    ELSE StrBatFetch \o StrBat \o SubSeq(cmd, Len(StrBat) + 2, Len(cmd))

\* C16: whenever the fetch of a command returns an error, the parser is not
\* called on what was read (also when lines were read before the error), no
\* gauge is updated, and the fetch error counter of the command is
\* incremented by exactly one.
C16_FailedFetchNotParsed ==
    [][(CommandStep /\ ~LastEvent(trace').ok) =>
          /\ ~LastEvent(trace').parsed
          /\ LastEvent(trace').published = 0
          /\ batteryGauges' = batteryGauges
          /\ powerGauges' = powerGauges
          /\ powerMosTemp' = powerMosTemp
          /\ CounterValue(scrapeErrors', FetchCounter(LastEvent(trace').cmd))
                = CounterValue(scrapeErrors,
                               FetchCounter(LastEvent(trace').cmd)) + 1]_vars

\* the first unit of a cycle was published, and the fetch of the second
\* failed after a line was read: its counter is one
C16_Witness ==
    /\ Len(trace) = 3
    /\ trace[2].published > 0
    /\ ~trace[3].ok
    /\ trace[3].read > 0
    /\ CounterValue(scrapeErrors, FetchCounter(CommandToFetch(2))) = 1
    /\ DOMAIN batteryGauges = {<<UnitMetricLabel(1), Tok1>>}

(***************************************************************************)
(* C18: in every cycle "pwr" is fetched, parsed and published before any   *)
(* BAT command is fetched, and then the commands "bat+1", ..., "bat+N" are *)
(* fetched in ascending order, each once, where N is the number of power   *)
(* records parsed in the cycle, whatever that number is; when the fetch of *)
(* "pwr" fails or no power record is parsed, no BAT command is fetched.    *)
(***************************************************************************)
\* the power records parsed in the cycle: those of its first command
ParsedPowerRecords == trace[1].records

C18_CycleOrder ==
    cycle >= 1 =>
        /\ trace[1].cmd = StrPwr
        /\ trace[1].ok =>
              trace[1].parsed /\ trace[1].published = trace[1].records
        /\ Len(trace) <= 1 + ParsedPowerRecords
        /\ \A i \in 2..Len(trace) : trace[i].cmd = StrBat \o <<"+">> \o Itoa(i - 1)
        /\ mainPc = "tick" => Len(trace) = 1 + ParsedPowerRecords
        /\ (~trace[1].ok \/ ParsedPowerRecords = 0) => Len(trace) = 1

(***************************************************************************)
(* C19: failures are isolated per BAT unit.  When the fetch of unit k of   *)
(* the N units of a cycle fails, the gauges are left as they were and the  *)
(* loop goes on with unit k + 1; a unit that parses to no record does not  *)
(* stop the later units either; and after unit N the loop has ended, so    *)
(* that main proceeds to the next cycle.                                   *)
(***************************************************************************)
\* a step that runs the BAT command of the unit unitNum
BatStep == mainPc = "bat" /\ CommandStep

C19_UnitFailuresIsolated ==
    [][BatStep =>
          /\ ~LastEvent(trace').ok => batteryGauges' = batteryGauges
          /\ LastEvent(trace').records = 0 => batteryGauges' = batteryGauges
          /\ mainPc' = "bat"
          /\ unitNum' = unitNum + 1
          /\ unitNum < pwrUnitCount => unitNum' <= pwrUnitCount
          /\ unitNum = pwrUnitCount => unitNum' > pwrUnitCount]_vars

(***************************************************************************)
(* C20: published gauges are never removed or reset.  After any cycles the *)
(* gauges of a battery (unit label, id) and of a power id are those of the *)
(* identities parsed so far, and their values are the values of the most   *)
(* recently parsed record of the identity: an identity that is missing,    *)
(* dropped or Absent in the latest scrape, or whose fetch failed, still    *)
(* shows the values of an earlier scrape.  The MOS temperature of a power  *)
(* id is the exception: it is a tenth of the MosTemp of the most recently  *)
(* parsed record of the id whose MosTemp is a float, and the id has no MOS *)
(* temperature gauge while it had no such record.                          *)
(***************************************************************************)
\* the battery gauges are those of the last records parsed
BatteryGaugesShowLast ==
    /\ DOMAIN batteryGauges = DOMAIN lastBat
    /\ \A key \in DOMAIN lastBat :
          batteryGauges[key] = BatteryValues(lastBat[key])

\* the power gauges but the MOS temperature are those of the last records
PowerGaugesShowLast ==
    /\ DOMAIN powerGauges = DOMAIN lastPwr
    /\ \A id \in DOMAIN lastPwr : powerGauges[id] = PowerValues(lastPwr[id])

\* a tenth of the MosTemp of the record r
MosTempTenth(r) ==
    Frac(ParseFloat(r.MosTemp).val.num, ParseFloat(r.MosTemp).val.den * 10)

C20_GaugesShowLastRecord ==
    /\ BatteryGaugesShowLast
    /\ PowerGaugesShowLast
    /\ DOMAIN powerMosTemp = DOMAIN lastMos
    /\ \A id \in DOMAIN lastMos : powerMosTemp[id] = MosTempTenth(lastMos[id])

\* the statement as it was made: the MOS temperature too is that of the
\* most recently parsed record of the power id
C20_Original_AllGaugesShowLastRecord ==
    /\ BatteryGaugesShowLast
    /\ PowerGaugesShowLast
    /\ DOMAIN powerMosTemp = DOMAIN lastPwr
    /\ \A id \in DOMAIN lastPwr :
          /\ ParseFloat(lastPwr[id].MosTemp).ok
          /\ powerMosTemp[id] = MosTempTenth(lastPwr[id])

\* the second cycle has ended: the last record of power id 1 has no MOS
\* temperature and the gauge shows the 18.0 of the first cycle; the fetch of
\* bat+1 failed and the gauges of its battery are still there
C20_Witness ==
    /\ cycle = 2
    /\ mainPc = "tick"
    /\ Len(trace) = 2
    /\ ~trace[2].ok
    /\ <<UnitMetricLabel(1), Tok1>> \in DOMAIN batteryGauges
    /\ lastPwr[Tok1].MosTemp = TokDash
    /\ lastPwr[Tok1].Volt # lastMos[Tok1].Volt
    /\ powerGauges[Tok1].volt = Frac(lastPwr[Tok1].Volt, 1)
    /\ powerMosTemp[Tok1] = Frac(180, 10)

(***************************************************************************)
(* C21: the scrape error counter is changed only by fetch failures.  No    *)
(* outcome of ParseBAT or ParsePWR (noise lines, rejected lines, dropped   *)
(* lines, degraded records, an empty batch, the batch warning) increments  *)
(* a counter: pwr_parse and every bat_parse_<unit> stay zero, and every    *)
(* fetch counter is the number of failed fetches of its command.           *)
(***************************************************************************)
\* the commands of which a fetch has failed
FailedCommands == DOMAIN fetchFailures

====
